---- MODULE Spec2Model ----
(***************************************************************************)
(* Model of the market-data collection pipeline of information_scraper.py: *)
(* the two row parsers, the block selection of                             *)
(* scrape_and_parse_value_sales, and the three command-line workflows      *)
(* (batch, single-test, retry-failures) acting on the canonical CSV and    *)
(* the failure queue file.                                                 *)
(*                                                                         *)
(* Text is modelled at the level of the regular expressions' matches: a    *)
(* block is the sequence of row literals it contains, a markup is the      *)
(* marker flag plus the sequence of complete data.addRows([...]); calls.   *)
(* Money is in integer cents.  A float in memory is <<"float", c>>, its    *)
(* str() as written to and read from the CSV is <<"str", c>>.              *)
(***************************************************************************)
EXTENDS Integers, Sequences, FiniteSets, TLC

VARIABLES
    csv,            \* OUTPUT_CSV: [exists, lines]
    failed,         \* FAILED_FILE: [exists, lines]
    pc,             \* position of the running process
    mode,           \* workflow of the current/last run
    minifig_ids,    \* batch: sys.argv[1:]; single-test: the built-in id
    failed_ids,     \* retry: the ids loaded from FAILED_FILE
    idx,            \* loop position (1-based index of the next id)
    all_rows,       \* batch/single: rows buffered for the final write
    existing_rows,  \* retry: data rows read from the CSV before the sweep
    header,         \* retry: header read from the CSV (NoHeader for None)
    still_failed,   \* retry: retained ids
    appended_count, \* retry: counter of successful appends
    exit_code,      \* exit status of the last finished run (NoExit while running)
    runs,           \* number of runs started
    attempts,       \* number of item attempts the runs started so far can make
    log,            \* history: one entry per attempt of the current run
    start_csv,      \* history: OUTPUT_CSV as it was when the run started
    start_failed,   \* history: FAILED_FILE as it was when the run started
    id_in,          \* scrape specification: the id of the call
    page_in,        \* scrape specification: what the renderer serves
    rows_out,       \* scrape specification: the result of the call
    fpc,            \* fetch specification: position in the body of the call
    doc,            \* fetch: the document as the page has rendered it so far
    browser,        \* fetch: "none", "open" or "closed"
    sessions,       \* fetch: number of browser sessions launched by the call
    polls,          \* fetch: number of document reads (loop iterations begun)
    sleeps,         \* fetch: number of time.sleep(1) calls
    found,          \* fetch: found
    html,           \* fetch: html, the last document read
    debug_file,     \* fetch: debug_timeout_<id>.html
    fetch_out,      \* fetch: how the with-block ended
    misses,         \* fetch history: number of reads that lacked the marker
    io_run,         \* history: the run (by number) in which file I/O failed, or 0
    html_in,        \* block extraction: the markup, as a sequence of tokens
    blocks_out,     \* block extraction: the result of re.findall
    kill_run,       \* history: the last sweep (by run number) killed after an append, or 0
    b_pc,           \* second process (batch mode): its position
    b_minifig_ids,  \* second process: sys.argv[1:]
    b_idx,          \* second process: loop position
    b_all_rows,     \* second process: rows buffered for the final write
    b_recorded      \* history: what the second process appended to FAILED_FILE during a sweep

vars == <<csv, failed, pc, mode, minifig_ids, failed_ids, idx, all_rows, existing_rows,
          header, still_failed, appended_count, exit_code, runs, attempts, log,
          start_csv, start_failed, id_in, page_in, rows_out, fpc, doc, browser,
          sessions, polls, sleeps, found, html, debug_file, fetch_out, misses, io_run,
          html_in, blocks_out, kill_run,
          b_pc, b_minifig_ids, b_idx, b_all_rows, b_recorded>>

concVars == <<b_pc, b_minifig_ids, b_idx, b_all_rows, b_recorded>>

procVars == <<pc, mode, minifig_ids, failed_ids, idx, all_rows, existing_rows, header,
              still_failed, appended_count, exit_code, runs, attempts,
              log, start_csv, start_failed, io_run, kill_run, concVars>>

fetchVars == <<fpc, doc, browser, sessions, polls, sleeps, found, html,
               debug_file, fetch_out, misses>>

blockVars == <<html_in, blocks_out>>

\* what no step of the three workflows changes while file I/O succeeds
pureVars == <<id_in, page_in, rows_out, fetchVars, io_run, blockVars, kill_run,
              concVars>>

-----------------------------------------------------------------------------
(* Bounds *)

MaxRuns == 3
MaxArgs == 2
MaxAttempts == 4
MaxRowsPerBlock == 2
MaxBlocks == 2
MaxPriceCents == 130
MaxTokens == 7

(* Program constants *)

PollBudget == 30

-----------------------------------------------------------------------------
(* Values *)

Ids == {"A", "B"}
TEST_ID == "SW0202b"

BadNum == 0 - 1     \* a field that fits [\d.]+ but that float() rejects ("1.2.3")

Float(c) == <<"float", c>>
Str(x) == <<"str", x[2]>>       \* str() of a float: its repr

QuartileLit(y, m, d, lo, q1, q3, hi, tip) ==
    [shape |-> "quartile", y |-> y, m |-> m, d |-> d,
     nums |-> <<lo, q1, q3, hi>>, tip |-> tip]
SingleLit(y, m, d, price) ==
    [shape |-> "single", y |-> y, m |-> m, d |-> d,
     nums |-> <<price>>, tip |-> 0]
OtherLit ==
    [shape |-> "other", y |-> 0, m |-> 0, d |-> 0, nums |-> <<>>, tip |-> 0]

Verbatim(t) == [kind |-> "verbatim", v |-> t]
Approximated(price) == [kind |-> "approximated quartiles", v |-> price]

-----------------------------------------------------------------------------
(* Row parsers (pure) *)

Raised == [ran |-> TRUE, raised |-> TRUE, rows |-> <<>>]
Returned(rows) == [ran |-> TRUE, raised |-> FALSE, rows |-> rows]
NotRun == [ran |-> FALSE, raised |-> FALSE, rows |-> <<>>]

\* re.findall(row_pattern, js_data_block): the literals of the given shape,
\* in document order
Matches(js_data_block, shape) ==
    SelectSeq(js_data_block, LAMBDA lit : lit.shape = shape)

\* float(...) raises ValueError on a field such as "1.2.3"
FloatRaises(match) == \E k \in 1..Len(match.nums) : match.nums[k] = BadNum

QuartileRow(match) ==
    << <<match.y, match.m + 1, 1>>,
       Float(match.nums[1]), Float(match.nums[2]),
       Float(match.nums[3]), Float(match.nums[4]),
       Verbatim(match.tip) >>

extract_value_sales_rows(js_data_block) ==
    LET matches == Matches(js_data_block, "quartile")
    IN  IF \E j \in 1..Len(matches) : FloatRaises(matches[j])
        THEN Raised
        ELSE Returned([j \in 1..Len(matches) |-> QuartileRow(matches[j])])

\* round(n/d, 2) in cents, of a product computed in binary floating point: the
\* nearest cent; on an exact half cent the float product may lie on either
\* side, so both neighbours are possible
RoundCents(n, d) ==
    LET q == n \div d
        r == n % d
    IN  IF 2 * r < d THEN {q}
        ELSE IF 2 * r > d THEN {q + 1}
        ELSE {q, q + 1}

SingleRows(match) ==
    LET price == match.nums[1]
    IN  { << <<match.y, match.m + 1, match.d>>,
             Float(low), Float(q1), Float(q3), Float(high),
             Approximated(price) >> :
          low \in RoundCents(9 * price, 10), q1 \in RoundCents(8 * price, 10),
          q3 \in RoundCents(11 * price, 10), high \in RoundCents(12 * price, 10) }

RECURSIVE SeqOfChoices(_)
SeqOfChoices(sets) ==
    IF sets = <<>> THEN {<<>>}
    ELSE { <<h>> \o t : h \in Head(sets), t \in SeqOfChoices(Tail(sets)) }

\* the set of results the call can produce (one, unless a price rounds on a tie)
parse_single_price_block(js_data_block) ==
    LET matches == Matches(js_data_block, "single")
    IN  IF \E j \in 1..Len(matches) : FloatRaises(matches[j])
        THEN {Raised}
        ELSE { Returned(rows) :
               rows \in SeqOfChoices([j \in 1..Len(matches) |-> SingleRows(matches[j])]) }

-----------------------------------------------------------------------------
(* Fetch and block selection *)

\* What the renderer does for one call: it raises, or it yields a document;
\* marker says whether "data.addRows([" appears within the polling budget,
\* blocks are the complete data.addRows([...]); calls of that document.
ErrorPage == [render |-> "error", marker |-> FALSE, blocks |-> <<>>]
Markup(marker, blocks) == [render |-> "ok", marker |-> marker, blocks |-> blocks]

WithId(minifig_id, res) ==
    IF res.raised THEN res
    ELSE Returned([j \in 1..Len(res.rows) |-> <<minifig_id>> \o res.rows[j]])

\* variant: when the quartile grammar yields nothing on block 1, the single-price
\* grammar is tried on block 0
scrape_with_fallback(minifig_id, page) ==
    IF page.render = "error" THEN {Raised}
    ELSE IF ~page.marker THEN {Returned(<<>>)}
    ELSE IF Len(page.blocks) < 2
         THEN IF page.blocks # <<>>
              THEN { WithId(minifig_id, res) :
                     res \in parse_single_price_block(page.blocks[1]) }
              ELSE {Returned(<<>>)}
         ELSE LET res2 == extract_value_sales_rows(page.blocks[2])
              IN  IF ~res2.raised /\ res2.rows = <<>>
                  THEN { WithId(minifig_id, res) :
                         res \in parse_single_price_block(page.blocks[1]) }
                  ELSE {WithId(minifig_id, res2)}

scrape_and_parse_value_sales(minifig_id, page) ==
    IF page.render = "error" THEN {Raised}
    ELSE IF ~page.marker THEN {Returned(<<>>)}
    ELSE IF Len(page.blocks) < 2
         THEN IF page.blocks # <<>>
              THEN { WithId(minifig_id, res) :
                     res \in parse_single_price_block(page.blocks[1]) }
              ELSE {Returned(<<>>)}
         ELSE {WithId(minifig_id, extract_value_sales_rows(page.blocks[2]))}

-----------------------------------------------------------------------------
(* Block extraction on text: the markup is a sequence of tokens, "open" for  *)
(* the text data.addRows([ , "close" for the text ]); , anything else for    *)
(* text that holds neither                                                   *)

Tokens == {"open", "close", "r1", "r2"}

NoBlocks == [ran |-> FALSE, blocks |-> <<>>]

BlocksIdle == html_in = <<>> /\ blocks_out = NoBlocks

\* the least index from `from` on that holds the token, or 0
FirstAt(text, token, from) ==
    IF \E k \in from..Len(text) : text[k] = token
    THEN CHOOSE k \in from..Len(text) :
             text[k] = token /\ \A m \in from..(k - 1) : text[m] # token
    ELSE 0

\* re.findall(r"data\.addRows\(\[(.*?)\]\);", html, re.DOTALL): the leftmost
\* opener, the shortest text up to a closer, and on from behind that closer
RECURSIVE findall_blocks(_)
findall_blocks(text) ==
    LET o == FirstAt(text, "open", 1)
        c == IF o = 0 THEN 0 ELSE FirstAt(text, "close", o + 1)
    IN  IF o = 0 \/ c = 0 THEN <<>>
        ELSE <<SubSeq(text, o + 1, c - 1)>>
             \o findall_blocks(SubSeq(text, c + 1, Len(text)))

-----------------------------------------------------------------------------
(* Files *)

AbsentFile == [exists |-> FALSE, lines |-> <<>>]
File(lines) == [exists |-> TRUE, lines |-> lines]

HeaderRow ==
    [kind |-> "header",
     fields |-> <<"SW_ID", "Date", "Low", "Q1", "Q3", "High", "Tooltip">>]
NoHeader == [kind |-> "none", fields |-> <<>>]      \* header = None

\* csv.writer stringifies every field with str(); csv.reader returns the strings
StrRow(row) ==
    [kind |-> "data",
     fields |-> <<row[1], row[2], Str(row[3]), Str(row[4]), Str(row[5]),
                  Str(row[6]), row[7]>>]
StrRows(rows) == [j \in 1..Len(rows) |-> StrRow(rows[j])]

SameLine(a, b) == a.kind = b.kind /\ a.fields = b.fields
InLines(line, lines) == \E k \in 1..Len(lines) : SameLine(line, lines[k])

\* the failure queue after open(FAILED_FILE, "a") and one write of "id\n"
RecordFailure(f, minifig_id) == File(Append(f.lines, minifig_id))

\* open(..., "w") then header and rows
WrittenCsv(rows) == File(<<HeaderRow>> \o StrRows(rows))

-----------------------------------------------------------------------------
(* Pages the renderer serves in the workflow specification *)

Q1Lit == QuartileLit(2022, 0, 1, 7935, 8100, 8596, 8927, 1)
Q2Lit == QuartileLit(2022, 1, 15, 8000, 8200, 8700, 9000, 2)
S1Lit == SingleLit(2008, 3, 28, 1800)
BadLit == QuartileLit(2022, 2, 1, BadNum, 8100, 8596, 8927, 3)

SamplePages ==
    { ErrorPage,
      Markup(FALSE, <<>>),
      Markup(TRUE, <<>>),
      Markup(TRUE, << <<S1Lit>> >>),
      Markup(TRUE, << <<Q1Lit>> >>),
      Markup(TRUE, << <<S1Lit>>, <<Q1Lit>> >>),
      Markup(TRUE, << <<S1Lit>>, <<Q1Lit, Q2Lit>> >>),
      Markup(TRUE, << <<S1Lit>>, <<BadLit>> >>),
      Markup(TRUE, << <<Q1Lit>>, <<S1Lit>>, <<Q2Lit>> >>) }

-----------------------------------------------------------------------------
(* History *)

\* rows of a result that are not on disk at the time of the attempt
Novel(res, file) ==
    Cardinality({ j \in 1..Len(res.rows) : ~InLines(StrRow(res.rows[j]), file.lines) })

LogEntry(minifig_id, res, novel, written, append_raised) ==
    [id |-> minifig_id, raised |-> res.raised, returned |-> Len(res.rows),
     novel |-> novel, written |-> written, append_raised |-> append_raised]

-----------------------------------------------------------------------------
(* Fetch: values *)

\* a document read: whether "data.addRows([" occurs in it and how many complete
\* data.addRows([...]); calls it holds
Doc(marker, blocks) == [marker |-> marker, blocks |-> blocks]
EmptyDoc == Doc(FALSE, 0)               \* html = ""

NoDebugFile == [exists |-> FALSE, content |-> EmptyDoc]

FetchIdle ==
    /\ fpc = "idle"
    /\ doc = EmptyDoc
    /\ browser = "none"
    /\ sessions = 0
    /\ polls = 0
    /\ sleeps = 0
    /\ found = FALSE
    /\ html = EmptyDoc
    /\ debug_file = NoDebugFile
    /\ fetch_out = "none"
    /\ misses = 0

-----------------------------------------------------------------------------
(* Initial state: no store, no failure queue, no run yet *)

\* no second process has been started
ConcIdle ==
    /\ b_pc = "idle"
    /\ b_minifig_ids = <<>>
    /\ b_idx = 1
    /\ b_all_rows = <<>>
    /\ b_recorded = <<>>

InitProc ==
    /\ pc = "idle"
    /\ mode = "none"
    /\ minifig_ids = <<>>
    /\ failed_ids = <<>>
    /\ idx = 1
    /\ all_rows = <<>>
    /\ existing_rows = <<>>
    /\ header = NoHeader
    /\ still_failed = <<>>
    /\ appended_count = 0
    /\ exit_code = "none"
    /\ runs = 0
    /\ attempts = 0
    /\ log = <<>>
    /\ start_csv = AbsentFile
    /\ start_failed = AbsentFile
    /\ io_run = 0
    /\ kill_run = 0
    /\ ConcIdle

Init ==
    /\ csv = AbsentFile
    /\ failed = AbsentFile
    /\ InitProc
    /\ id_in = TEST_ID
    /\ page_in = ErrorPage
    /\ rows_out = NotRun
    /\ FetchIdle
    /\ BlocksIdle

CanStart(n) ==
    pc \in {"idle", "done"} /\ runs < MaxRuns /\ attempts + n <= MaxAttempts

\* the part of a start common to the three workflows
Begin(m, n) ==
    /\ CanStart(n)
    /\ mode' = m
    /\ runs' = runs + 1
    /\ attempts' = attempts + n
    /\ idx' = 1
    /\ all_rows' = <<>>
    /\ still_failed' = <<>>
    /\ appended_count' = 0
    /\ log' = <<>>
    /\ start_csv' = csv
    /\ start_failed' = failed
    /\ UNCHANGED <<csv, failed, pureVars>>

Exit0 == pc' = "done" /\ exit_code' = "0"

-----------------------------------------------------------------------------
(* Batch mode: python information_scraper.py ID ... *)

ArgLists == UNION { [1..n -> Ids] : n \in 1..MaxArgs }

StartBatch ==
    \E ids \in ArgLists :
        /\ Begin("batch", Len(ids))
        /\ minifig_ids' = ids
        /\ pc' = "batch"
        /\ exit_code' = "none"
        /\ UNCHANGED <<failed_ids, existing_rows, header>>

\* variant: a zero-record result is recorded by the else branch and again by
\* the except branch
BatchAttempt_DoubleRecord(minifig_id, res) ==
    /\ IF ~res.raised /\ res.rows # <<>>
       THEN /\ all_rows' = all_rows \o res.rows
            /\ UNCHANGED failed
       ELSE /\ failed' = IF res.raised
                         THEN RecordFailure(failed, minifig_id)
                         ELSE RecordFailure(RecordFailure(failed, minifig_id), minifig_id)
            /\ UNCHANGED all_rows
    /\ log' = Append(log, LogEntry(minifig_id, res, Novel(res, csv), 0, FALSE))

\* variant: the failures are written to the queue by the last iteration only
BatchAttempt_RecordAtEnd(minifig_id, res) ==
    LET failed_now == IF ~res.raised /\ res.rows # <<>> THEN <<>> ELSE <<minifig_id>>
        failed_before ==
            LET sel == SelectSeq(log, LAMBDA e : e.raised \/ e.returned = 0)
            IN  [j \in 1..Len(sel) |-> sel[j].id]
    IN  /\ all_rows' = IF failed_now = <<>> THEN all_rows \o res.rows ELSE all_rows
        /\ failed' = IF idx < Len(minifig_ids) \/ failed_before \o failed_now = <<>>
                     THEN failed
                     ELSE File(failed.lines \o failed_before \o failed_now)
        /\ log' = Append(log, LogEntry(minifig_id, res, Novel(res, csv), 0, FALSE))

\* variant: an attempt that returns no rows without raising is not recorded
BatchAttempt_SilentEmpty(minifig_id, res) ==
    /\ IF res.raised
       THEN /\ failed' = RecordFailure(failed, minifig_id)
            /\ UNCHANGED all_rows
       ELSE /\ all_rows' = all_rows \o res.rows
            /\ UNCHANGED failed
    /\ log' = Append(log, LogEntry(minifig_id, res, Novel(res, csv), 0, FALSE))

\* one iteration of the loop over minifig_ids
BatchAttempt(minifig_id, res) ==
    /\ IF ~res.raised /\ res.rows # <<>>
       THEN /\ all_rows' = all_rows \o res.rows
            /\ UNCHANGED failed
       ELSE /\ failed' = RecordFailure(failed, minifig_id)
            /\ UNCHANGED all_rows
    /\ log' = Append(log, LogEntry(minifig_id, res, Novel(res, csv), 0, FALSE))

\* variant: an exception ends the loop
BatchItem_AbortOnError ==
    /\ pc = "batch"
    /\ idx <= Len(minifig_ids)
    /\ \E page \in SamplePages :
       \E res \in scrape_and_parse_value_sales(minifig_ids[idx], page) :
           /\ BatchAttempt(minifig_ids[idx], res)
           /\ idx' = IF res.raised THEN Len(minifig_ids) + 1 ELSE idx + 1
    /\ UNCHANGED <<csv, pc, mode, minifig_ids, failed_ids, existing_rows, header,
                   still_failed, appended_count, exit_code, runs, attempts,
                   start_csv, start_failed, pureVars>>

\* variant: an exception of the pipeline is not caught and ends the process
BatchItem_Propagate ==
    /\ pc = "batch"
    /\ idx <= Len(minifig_ids)
    /\ \E page \in SamplePages :
       \E res \in scrape_and_parse_value_sales(minifig_ids[idx], page) :
           /\ BatchAttempt(minifig_ids[idx], res)
           /\ IF res.raised
              THEN pc' = "done" /\ exit_code' = "1"
              ELSE UNCHANGED <<pc, exit_code>>
    /\ idx' = idx + 1
    /\ UNCHANGED <<csv, mode, minifig_ids, failed_ids, existing_rows, header,
                   still_failed, appended_count, runs, attempts,
                   start_csv, start_failed, pureVars>>

BatchItem ==
    /\ pc = "batch"
    /\ idx <= Len(minifig_ids)
    /\ \E page \in SamplePages :
       \E res \in scrape_and_parse_value_sales(minifig_ids[idx], page) :
           BatchAttempt(minifig_ids[idx], res)
    /\ idx' = idx + 1
    /\ UNCHANGED <<csv, pc, mode, minifig_ids, failed_ids, existing_rows, header,
                   still_failed, appended_count, exit_code, runs, attempts,
                   start_csv, start_failed, pureVars>>

\* open("all_minifig_value_sales.csv", "w") truncates the file
BatchOpenCsv ==
    /\ pc = "batch"
    /\ idx > Len(minifig_ids)
    /\ all_rows # <<>>
    /\ csv' = File(<<>>)
    /\ pc' = "batch_write"
    /\ UNCHANGED <<failed, mode, minifig_ids, failed_ids, idx, all_rows,
                   existing_rows, header, still_failed, appended_count,
                   exit_code, runs, attempts, log, start_csv, start_failed, pureVars>>

BatchWriteCsv ==
    /\ pc = "batch_write"
    /\ csv' = WrittenCsv(all_rows)
    /\ Exit0
    /\ UNCHANGED <<failed, mode, minifig_ids, failed_ids, idx, all_rows,
                   existing_rows, header, still_failed, appended_count,
                   runs, attempts, log, start_csv, start_failed, pureVars>>

BatchEnd ==
    /\ pc = "batch"
    /\ idx > Len(minifig_ids)
    /\ all_rows = <<>>
    /\ Exit0
    /\ UNCHANGED <<csv, failed, mode, minifig_ids, failed_ids, idx, all_rows,
                   existing_rows, header, still_failed, appended_count,
                   runs, attempts, log, start_csv, start_failed, pureVars>>

-----------------------------------------------------------------------------
(* Single-test mode: python information_scraper.py *)

StartSingle ==
    /\ Begin("single", 1)
    /\ minifig_ids' = <<TEST_ID>>
    /\ pc' = "single"
    /\ exit_code' = "none"
    /\ UNCHANGED <<failed_ids, existing_rows, header>>

\* the scrape of the built-in id; an exception is printed, nothing is recorded
SingleAttempt(minifig_id, res) ==
    /\ all_rows' = IF res.raised THEN <<>> ELSE res.rows
    /\ log' = Append(log, LogEntry(minifig_id, res, Novel(res, csv), 0, FALSE))
    /\ UNCHANGED failed

SingleItem ==
    /\ pc = "single"
    /\ idx <= Len(minifig_ids)
    /\ \E page \in SamplePages :
       \E res \in scrape_and_parse_value_sales(minifig_ids[idx], page) :
           SingleAttempt(minifig_ids[idx], res)
    /\ idx' = idx + 1
    /\ UNCHANGED <<csv, pc, mode, minifig_ids, failed_ids, existing_rows, header,
                   still_failed, appended_count, exit_code, runs, attempts,
                   start_csv, start_failed, pureVars>>

SingleOpenCsv ==
    /\ pc = "single"
    /\ idx > Len(minifig_ids)
    /\ all_rows # <<>>
    /\ csv' = File(<<>>)
    /\ pc' = "single_write"
    /\ UNCHANGED <<failed, mode, minifig_ids, failed_ids, idx, all_rows,
                   existing_rows, header, still_failed, appended_count,
                   exit_code, runs, attempts, log, start_csv, start_failed, pureVars>>

SingleWriteCsv ==
    /\ pc = "single_write"
    /\ csv' = WrittenCsv(all_rows)
    /\ Exit0
    /\ UNCHANGED <<failed, mode, minifig_ids, failed_ids, idx, all_rows,
                   existing_rows, header, still_failed, appended_count,
                   runs, attempts, log, start_csv, start_failed, pureVars>>

SingleEnd ==
    /\ pc = "single"
    /\ idx > Len(minifig_ids)
    /\ all_rows = <<>>
    /\ Exit0
    /\ UNCHANGED <<csv, failed, mode, minifig_ids, failed_ids, idx, all_rows,
                   existing_rows, header, still_failed, appended_count,
                   runs, attempts, log, start_csv, start_failed, pureVars>>

-----------------------------------------------------------------------------
(* Retry mode: python information_scraper.py --retry-failures *)

\* no FAILED_FILE, or no id in it: sys.exit(0) before anything is read
RetryNothing ==
    /\ ~failed.exists \/ failed.lines = <<>>
    /\ Begin("retry", Len(failed.lines))
    /\ failed_ids' = failed.lines
    /\ Exit0
    /\ UNCHANGED <<minifig_ids, existing_rows, header>>

\* header = next(reader, None); existing_rows = list(reader)
ReadHeader(file) ==
    IF ~file.exists THEN HeaderRow
    ELSE IF file.lines = <<>> THEN NoHeader ELSE Head(file.lines)
ReadRows(file) ==
    IF ~file.exists \/ file.lines = <<>> THEN <<>> ELSE Tail(file.lines)

\* variant: the sweep does not read the store before the loop
StartRetry_NoReload ==
    /\ failed.exists /\ failed.lines # <<>>
    /\ Begin("retry", Len(failed.lines))
    /\ failed_ids' = failed.lines
    /\ header' = ReadHeader(csv)
    /\ existing_rows' = <<>>
    /\ pc' = "retry"
    /\ exit_code' = "none"
    /\ UNCHANGED minifig_ids

StartRetry ==
    /\ failed.exists /\ failed.lines # <<>>
    /\ Begin("retry", Len(failed.lines))
    /\ failed_ids' = failed.lines
    /\ header' = ReadHeader(csv)
    /\ existing_rows' = ReadRows(csv)
    /\ pc' = "retry"
    /\ exit_code' = "none"
    /\ UNCHANGED minifig_ids

\* new_rows = [row for row in rows if list(map(str, row)) not in existing_rows]
NewRows(rows, existing) ==
    SelectSeq(rows, LAMBDA row : ~InLines(StrRow(row), existing))

\* with open(OUTPUT_CSV, "a"): the file exists from here on; writerow(None)
\* raises before anything is written
AppendRaises(file, hdr) == file.lines = <<>> /\ hdr = NoHeader
\* variant: the header is written by every append
AppendedCsv_AlwaysHeader(file, hdr, new_rows) ==
    IF file.lines = <<>> /\ hdr = NoHeader THEN File(<<>>)
    ELSE File(file.lines \o <<hdr>> \o StrRows(new_rows))

\* variant: the append replaces the content of the file
AppendedCsv_Overwrite(file, hdr, new_rows) ==
    IF hdr = NoHeader THEN File(<<>>)
    ELSE File(<<hdr>> \o StrRows(new_rows))

AppendedCsv(file, hdr, new_rows) ==
    IF file.lines = <<>>
    THEN IF hdr = NoHeader THEN File(<<>>)
         ELSE File(<<hdr>> \o StrRows(new_rows))
    ELSE File(file.lines \o StrRows(new_rows))

\* variant: an id whose rows are all in the CSV already is kept in the queue
RetryAttempt_KeepPresent(minifig_id, res) ==
    LET new_rows == NewRows(res.rows, existing_rows)
        novel == Novel(res, csv)
    IN  IF res.raised \/ res.rows = <<>> \/ new_rows = <<>>
        THEN /\ still_failed' = Append(still_failed, minifig_id)
             /\ log' = Append(log, LogEntry(minifig_id, res, novel, 0, FALSE))
             /\ UNCHANGED <<csv, appended_count>>
        ELSE IF AppendRaises(csv, header)
        THEN /\ csv' = AppendedCsv(csv, header, new_rows)
             /\ still_failed' = Append(still_failed, minifig_id)
             /\ log' = Append(log, LogEntry(minifig_id, res, novel, 0, TRUE))
             /\ UNCHANGED appended_count
        ELSE /\ csv' = AppendedCsv(csv, header, new_rows)
             /\ appended_count' = appended_count + 1
             /\ log' = Append(log, LogEntry(minifig_id, res, novel,
                                            Len(new_rows), FALSE))
             /\ UNCHANGED still_failed

\* one iteration of the loop over failed_ids
RetryAttempt(minifig_id, res) ==
    LET new_rows == NewRows(res.rows, existing_rows)
        novel == Novel(res, csv)
    IN  IF res.raised \/ res.rows = <<>>
        THEN /\ still_failed' = Append(still_failed, minifig_id)
             /\ log' = Append(log, LogEntry(minifig_id, res, novel, 0, FALSE))
             /\ UNCHANGED <<csv, appended_count>>
        ELSE IF new_rows = <<>>
        THEN /\ log' = Append(log, LogEntry(minifig_id, res, novel, 0, FALSE))
             /\ UNCHANGED <<csv, appended_count, still_failed>>
        ELSE IF AppendRaises(csv, header)
        THEN /\ csv' = AppendedCsv(csv, header, new_rows)
             /\ still_failed' = Append(still_failed, minifig_id)
             /\ log' = Append(log, LogEntry(minifig_id, res, novel, 0, TRUE))
             /\ UNCHANGED appended_count
        ELSE /\ csv' = AppendedCsv(csv, header, new_rows)
             /\ appended_count' = appended_count + 1
             /\ log' = Append(log, LogEntry(minifig_id, res, novel,
                                            Len(new_rows), FALSE))
             /\ UNCHANGED still_failed

\* variant: the retained list is saved after every attempt
RetryItem_SaveEachStep ==
    /\ pc = "retry"
    /\ idx <= Len(failed_ids)
    /\ \E page \in SamplePages :
       \E res \in scrape_and_parse_value_sales(failed_ids[idx], page) :
           RetryAttempt(failed_ids[idx], res)
    /\ failed' = File(still_failed')
    /\ idx' = idx + 1
    /\ UNCHANGED <<pc, mode, minifig_ids, failed_ids, all_rows,
                   existing_rows, header, exit_code, runs, attempts,
                   start_csv, start_failed, pureVars>>

RetryItem ==
    /\ pc = "retry"
    /\ idx <= Len(failed_ids)
    /\ \E page \in SamplePages :
       \E res \in scrape_and_parse_value_sales(failed_ids[idx], page) :
           RetryAttempt(failed_ids[idx], res)
    /\ idx' = idx + 1
    /\ UNCHANGED <<failed, pc, mode, minifig_ids, failed_ids, all_rows,
                   existing_rows, header, exit_code, runs, attempts,
                   start_csv, start_failed, pureVars>>

\* open(FAILED_FILE, "w") and one line per retained id, then sys.exit(0)
RetrySave ==
    /\ pc = "retry"
    /\ idx > Len(failed_ids)
    /\ failed' = File(still_failed)
    /\ Exit0
    /\ UNCHANGED <<csv, mode, minifig_ids, failed_ids, idx, all_rows,
                   existing_rows, header, still_failed, appended_count,
                   runs, attempts, log, start_csv, start_failed, pureVars>>

-----------------------------------------------------------------------------
(* The process is stopped from outside (interrupt, kill) between two steps *)

Running == pc \in {"batch", "batch_write", "single", "single_write", "retry"}

Crash ==
    /\ Running
    /\ pc' = "done"
    /\ exit_code' = "killed"
    \* the memory of the process is gone
    /\ minifig_ids' = <<>>
    /\ failed_ids' = <<>>
    /\ idx' = 1
    /\ all_rows' = <<>>
    /\ existing_rows' = <<>>
    /\ header' = NoHeader
    /\ still_failed' = <<>>
    /\ appended_count' = 0
    /\ log' = <<>>
    /\ UNCHANGED <<csv, failed, mode, runs, attempts, start_csv, start_failed, pureVars>>

Next ==
    \/ StartBatch \/ BatchItem \/ BatchOpenCsv \/ BatchWriteCsv \/ BatchEnd
    \/ StartSingle \/ SingleItem \/ SingleOpenCsv \/ SingleWriteCsv \/ SingleEnd
    \/ RetryNothing \/ StartRetry \/ RetryItem \/ RetrySave
    \/ Crash

Spec == Init /\ [][Next]_vars

-----------------------------------------------------------------------------
(* One call of scrape_and_parse_value_sales on any page of a bounded family *)

ScrapeLits == {Q1Lit, S1Lit, OtherLit}

SeqsUpTo(S, n) == UNION { [1..k -> S] : k \in 0..n }

ScrapePages ==
    {ErrorPage, Markup(FALSE, <<>>)}
    \cup { Markup(TRUE, blocks) :
           blocks \in SeqsUpTo(SeqsUpTo(ScrapeLits, MaxRowsPerBlock), MaxBlocks) }
    \cup { Markup(TRUE, << <<SingleLit(2008, 3, 28, price)>> >>) :
           price \in 0..MaxPriceCents }
    \cup { Markup(TRUE, << <<SingleLit(2008, 3, 28, BadNum)>> >>),
           Markup(TRUE, << <<S1Lit>>, <<Q1Lit, BadLit>> >>),
           Markup(TRUE, << <<S1Lit>>, <<Q2Lit, Q1Lit>> >>) }

InitScrape ==
    /\ csv = AbsentFile
    /\ failed = AbsentFile
    /\ InitProc
    /\ id_in \in Ids
    /\ page_in \in ScrapePages
    /\ rows_out = NotRun
    /\ FetchIdle
    /\ BlocksIdle

Scrape ==
    /\ ~rows_out.ran
    /\ \E res \in scrape_and_parse_value_sales(id_in, page_in) : rows_out' = res
    /\ UNCHANGED <<csv, failed, procVars, id_in, page_in, fetchVars, blockVars>>

SpecScrape == InitScrape /\ [][Scrape]_vars

-----------------------------------------------------------------------------
(* Block extraction applied to every markup of a bounded length *)

InitBlocks ==
    /\ csv = AbsentFile
    /\ failed = AbsentFile
    /\ InitProc
    /\ id_in = TEST_ID
    /\ page_in = ErrorPage
    /\ rows_out = NotRun
    /\ FetchIdle
    /\ html_in \in SeqsUpTo(Tokens, MaxTokens)
    /\ blocks_out = NoBlocks

\* variant: the longest text up to a closer (greedy quantifier)
ExtractBlocks_Greedy ==
    /\ ~blocks_out.ran
    /\ blocks_out' =
         LET o == FirstAt(html_in, "open", 1)
             closers == { k \in 1..Len(html_in) : k > o /\ html_in[k] = "close" }
         IN  [ran |-> TRUE,
              blocks |-> IF o = 0 \/ closers = {} THEN <<>>
                         ELSE LET c == CHOOSE k \in closers : \A m \in closers : m <= k
                              IN  <<SubSeq(html_in, o + 1, c - 1)>>]
    /\ UNCHANGED <<csv, failed, procVars, id_in, page_in, rows_out, fetchVars, html_in>>

ExtractBlocks ==
    /\ ~blocks_out.ran
    /\ blocks_out' = [ran |-> TRUE, blocks |-> findall_blocks(html_in)]
    /\ UNCHANGED <<csv, failed, procVars, id_in, page_in, rows_out, fetchVars, html_in>>

SpecBlocks == InitBlocks /\ [][ExtractBlocks]_vars

-----------------------------------------------------------------------------
(* The with-block of scrape_and_parse_value_sales, step by step, while the   *)
(* page goes on rendering                                                     *)

InitFetch ==
    /\ csv = AbsentFile
    /\ failed = AbsentFile
    /\ InitProc
    /\ id_in \in Ids
    /\ page_in = ErrorPage
    /\ rows_out = NotRun
    /\ FetchIdle
    /\ BlocksIdle

FetchFrame == UNCHANGED <<csv, failed, procVars, id_in, page_in, rows_out, blockVars>>

StepFrame == FetchFrame /\ UNCHANGED misses

\* browser = p.chromium.launch(headless=False)
Launch ==
    /\ fpc = "idle"
    /\ browser' = "open"
    /\ sessions' = sessions + 1
    /\ fpc' = "launched"
    /\ UNCHANGED <<doc, polls, sleeps, found, html, debug_file, fetch_out>>
    /\ StepFrame

\* sync_playwright() or launch raises: no browser, nothing to close
LaunchFails ==
    /\ fpc = "idle"
    /\ fpc' = "done"
    /\ fetch_out' = "raised"
    /\ UNCHANGED <<doc, browser, sessions, polls, sleeps, found, html, debug_file>>
    /\ StepFrame

\* page = browser.new_page()
NewPage ==
    /\ fpc = "launched"
    /\ fpc' = "page"
    /\ UNCHANGED <<doc, browser, sessions, polls, sleeps, found, html,
                   debug_file, fetch_out>>
    /\ StepFrame

\* page.goto(url, timeout=5000); found = False; html = ""
Goto ==
    /\ fpc = "page"
    /\ fpc' = "poll"
    /\ found' = FALSE
    /\ html' = EmptyDoc
    /\ UNCHANGED <<doc, browser, sessions, polls, sleeps, debug_file, fetch_out>>
    /\ StepFrame

\* variant: no try/finally around the page calls
StepRaises_NoFinally ==
    /\ \/ fpc \in {"launched", "page"}
       \/ fpc = "poll" /\ polls < PollBudget
    /\ fpc' = "done"
    /\ fetch_out' = "raised"
    /\ UNCHANGED <<doc, browser, sessions, polls, sleeps, found, html, debug_file>>
    /\ StepFrame

\* new_page, goto or evaluate raises: control goes to the finally clause
StepRaises ==
    /\ \/ fpc \in {"launched", "page"}
       \/ fpc = "poll" /\ polls < PollBudget
    /\ fpc' = "finally"
    /\ fetch_out' = "raised"
    /\ UNCHANGED <<doc, browser, sessions, polls, sleeps, found, html, debug_file>>
    /\ StepFrame

\* variant: the loop has no break
Evaluate_NoBreak ==
    /\ fpc = "poll"
    /\ polls < PollBudget
    /\ polls' = polls + 1
    /\ html' = doc
    /\ IF doc.marker
       THEN /\ found' = TRUE
            /\ fetch_out' = "markup"
            /\ fpc' = "sleep"
       ELSE /\ fpc' = "sleep"
            /\ UNCHANGED <<found, fetch_out>>
    /\ misses' = IF doc.marker THEN misses ELSE misses + 1
    /\ UNCHANGED <<doc, browser, sessions, sleeps, debug_file>>
    /\ FetchFrame

\* one iteration of for _ in range(30), up to the marker test
Evaluate ==
    /\ fpc = "poll"
    /\ polls < PollBudget
    /\ polls' = polls + 1
    /\ html' = doc
    /\ IF doc.marker
       THEN /\ found' = TRUE
            /\ fetch_out' = "markup"
            /\ fpc' = "finally"             \* break; not found is false
       ELSE /\ fpc' = "sleep"
            /\ UNCHANGED <<found, fetch_out>>
    /\ misses' = IF doc.marker THEN misses ELSE misses + 1
    /\ UNCHANGED <<doc, browser, sessions, sleeps, debug_file>>
    /\ FetchFrame

\* variant: the loop polls until the marker shows (while not found)
Sleep_Unbounded ==
    /\ fpc = "sleep"
    /\ fpc' = "poll"
    /\ IF polls < PollBudget
       THEN sleeps' = sleeps + 1 /\ UNCHANGED <<polls, misses>>
       ELSE sleeps' = 0 /\ polls' = 0 /\ misses' = 0
    /\ UNCHANGED <<doc, browser, sessions, found, html, debug_file, fetch_out>>
    /\ FetchFrame

\* time.sleep(1), then the next iteration or the end of the loop
Sleep ==
    /\ fpc = "sleep"
    /\ sleeps' = sleeps + 1
    /\ fpc' = IF polls < PollBudget THEN "poll" ELSE "timeout"
    /\ UNCHANGED <<doc, browser, sessions, polls, found, html, debug_file, fetch_out>>
    /\ StepFrame

\* if not found: write html to debug_timeout_<id>.html; return []
TimedOut ==
    /\ fpc = "timeout"
    /\ ~found
    /\ debug_file' = [exists |-> TRUE, content |-> html]
    /\ fetch_out' = "timeout"
    /\ fpc' = "finally"
    /\ UNCHANGED <<doc, browser, sessions, polls, sleeps, found, html>>
    /\ StepFrame

\* finally: browser.close()
CloseBrowser ==
    /\ fpc = "finally"
    /\ browser' = "closed"
    /\ fpc' = "done"
    /\ UNCHANGED <<doc, sessions, polls, sleeps, found, html, debug_file, fetch_out>>
    /\ StepFrame

\* the page's scripts run on in the browser while the fetcher polls and until
\* the browser is closed: first the marker shows, then complete calls, one
\* after another
Render ==
    /\ browser = "open"
    /\ fpc \in {"poll", "sleep", "timeout", "finally"}
    /\ \/ ~doc.marker /\ doc' = Doc(TRUE, doc.blocks)
       \/ doc.blocks < MaxBlocks /\ doc' = Doc(TRUE, doc.blocks + 1)
    /\ UNCHANGED <<fpc, browser, sessions, polls, sleeps, found, html,
                   debug_file, fetch_out>>
    /\ StepFrame

NextFetch ==
    \/ Launch \/ LaunchFails \/ NewPage \/ Goto \/ StepRaises
    \/ Evaluate \/ Sleep \/ TimedOut \/ CloseBrowser \/ Render

SpecFetch == InitFetch /\ [][NextFetch]_vars

-----------------------------------------------------------------------------
(* One batch or retry run in which every call of scrape_and_parse_value_sales *)
(* is taken step by step                                                       *)

\* a batch in a directory without queue file, or a sweep over a queue file
InitRun ==
    /\ csv = AbsentFile
    /\ failed \in {AbsentFile} \cup { File(ids) : ids \in SeqsUpTo(Ids, MaxArgs) }
    /\ InitProc
    /\ id_in = TEST_ID
    /\ page_in = ErrorPage
    /\ rows_out = NotRun
    /\ FetchIdle
    /\ BlocksIdle

RunStart ==
    /\ runs = 0
    /\ \/ ~failed.exists /\ StartBatch
       \/ StartRetry
       \/ RetryNothing

\* the loop is at an id whose call has not returned yet
InCall ==
    \/ pc = "batch" /\ idx <= Len(minifig_ids)
    \/ pc = "retry" /\ idx <= Len(failed_ids)

RunFetch ==
    /\ InCall
    /\ \/ Launch \/ LaunchFails \/ NewPage \/ Goto \/ StepRaises
       \/ Evaluate \/ Sleep \/ TimedOut \/ CloseBrowser

RunRender == InCall /\ Render

\* the pages of this specification: no document, a document without marker,
\* and documents of 0 to MaxBlocks blocks, the first with a single-price row
\* and the others with a quartile row
RunPages ==
    {ErrorPage, Markup(FALSE, <<>>)}
    \cup { Markup(TRUE, [j \in 1..n |-> IF j = 1 THEN <<S1Lit>> ELSE <<Q1Lit>>]) :
           n \in 0..MaxBlocks }

\* the page as the rest of the call sees it, given how the with-block ended
Fetched(page) ==
    \/ fetch_out = "raised" /\ page = ErrorPage
    \/ fetch_out = "timeout" /\ page.render = "ok" /\ ~page.marker
    \/ /\ fetch_out = "markup"
       /\ page.render = "ok" /\ page.marker /\ Len(page.blocks) = html.blocks

\* the next call starts from scratch (debug_file is the file of the id of the
\* call)
FetchReset ==
    /\ fpc' = "idle"
    /\ doc' = EmptyDoc
    /\ browser' = "none"
    /\ sessions' = 0
    /\ polls' = 0
    /\ sleeps' = 0
    /\ found' = FALSE
    /\ html' = EmptyDoc
    /\ debug_file' = NoDebugFile
    /\ fetch_out' = "none"
    /\ misses' = 0

\* the rest of the loop body once the with-block is left
RunBatchItem ==
    /\ pc = "batch"
    /\ idx <= Len(minifig_ids)
    /\ fpc = "done"
    /\ \E page \in RunPages :
       /\ Fetched(page)
       /\ \E res \in scrape_and_parse_value_sales(minifig_ids[idx], page) :
             BatchAttempt(minifig_ids[idx], res)
    /\ idx' = idx + 1
    /\ FetchReset
    /\ UNCHANGED <<csv, pc, mode, minifig_ids, failed_ids, existing_rows, header,
                   still_failed, appended_count, exit_code, runs, attempts,
                   start_csv, start_failed, id_in, page_in, rows_out, io_run,
                   blockVars, kill_run, concVars>>

RunRetryItem ==
    /\ pc = "retry"
    /\ idx <= Len(failed_ids)
    /\ fpc = "done"
    /\ \E page \in RunPages :
       /\ Fetched(page)
       /\ \E res \in scrape_and_parse_value_sales(failed_ids[idx], page) :
             RetryAttempt(failed_ids[idx], res)
    /\ idx' = idx + 1
    /\ FetchReset
    /\ UNCHANGED <<failed, pc, mode, minifig_ids, failed_ids, all_rows,
                   existing_rows, header, exit_code, runs, attempts,
                   start_csv, start_failed, id_in, page_in, rows_out, io_run,
                   blockVars, kill_run, concVars>>

RunEnd == BatchOpenCsv \/ BatchWriteCsv \/ BatchEnd \/ RetrySave

\* the steps of the program, as opposed to those of the page
RunStep == RunFetch \/ RunBatchItem \/ RunRetryItem \/ RunEnd

NextRun == RunStart \/ RunStep \/ RunRender

SpecRun == InitRun /\ [][NextRun]_vars

\* every renderer call returns or raises and the process is not held up
SpecRunFair == SpecRun /\ WF_vars(RunStep)

-----------------------------------------------------------------------------
(* The workflows when an open, read or write of one of the two files raises  *)
(* OSError                                                                    *)

IOFrame ==
    UNCHANGED <<id_in, page_in, rows_out, fetchVars, blockVars, kill_run, concVars>>

\* an exception nobody catches: traceback, exit status 1
ExitIO == pc' = "done" /\ exit_code' = "1" /\ io_run' = runs

\* retry: reading FAILED_FILE (line 122) or OUTPUT_CSV (lines 131-136) raises;
\* both reads are outside any try
RetryLoadFails ==
    /\ failed.exists
    /\ CanStart(0)
    /\ mode' = "retry"
    /\ runs' = runs + 1
    /\ io_run' = runs + 1
    /\ pc' = "done"
    /\ exit_code' = "1"
    /\ idx' = 1
    /\ all_rows' = <<>>
    /\ still_failed' = <<>>
    /\ appended_count' = 0
    /\ log' = <<>>
    /\ start_csv' = csv
    /\ start_failed' = failed
    /\ UNCHANGED <<csv, failed, minifig_ids, failed_ids, existing_rows, header, attempts>>
    /\ IOFrame

\* retry: open(OUTPUT_CSV, "a") raises inside the try of the loop body; the
\* except Exception of line 160 takes it like a scrape error
RetryAppendFails ==
    /\ pc = "retry"
    /\ idx <= Len(failed_ids)
    /\ \E page \in SamplePages :
       \E res \in scrape_and_parse_value_sales(failed_ids[idx], page) :
           /\ ~res.raised
           /\ NewRows(res.rows, existing_rows) # <<>>
           /\ log' = Append(log, LogEntry(failed_ids[idx], res, Novel(res, csv), 0, TRUE))
    /\ still_failed' = Append(still_failed, failed_ids[idx])
    /\ idx' = idx + 1
    /\ io_run' = runs
    /\ UNCHANGED <<csv, failed, pc, mode, minifig_ids, failed_ids, all_rows,
                   existing_rows, header, appended_count, exit_code, runs,
                   attempts, start_csv, start_failed>>
    /\ IOFrame

\* retry: open(FAILED_FILE, "w") after the loop raises
RetrySaveFails ==
    /\ pc = "retry"
    /\ idx > Len(failed_ids)
    /\ ExitIO
    /\ UNCHANGED <<csv, failed, mode, minifig_ids, failed_ids, idx, all_rows,
                   existing_rows, header, still_failed, appended_count,
                   runs, attempts, log, start_csv, start_failed>>
    /\ IOFrame

\* batch: the open(FAILED_FILE, "a") of the except branch (line 191) raises,
\* either after a scrape error or after the open of line 183 raised and was
\* caught
BatchRecordFails ==
    /\ pc = "batch"
    /\ idx <= Len(minifig_ids)
    /\ \E page \in SamplePages :
       \E res \in scrape_and_parse_value_sales(minifig_ids[idx], page) :
           /\ res.raised \/ res.rows = <<>>
           /\ log' = Append(log, LogEntry(minifig_ids[idx], res, Novel(res, csv), 0, FALSE))
    /\ ExitIO
    /\ UNCHANGED <<csv, failed, mode, minifig_ids, failed_ids, idx, all_rows,
                   existing_rows, header, still_failed, appended_count,
                   runs, attempts, start_csv, start_failed>>
    /\ IOFrame

\* batch: the open of line 183 raises inside the try, the except branch prints
\* the error and its own open (line 191) succeeds
BatchRecordRetried ==
    /\ pc = "batch"
    /\ idx <= Len(minifig_ids)
    /\ \E page \in SamplePages :
       \E res \in scrape_and_parse_value_sales(minifig_ids[idx], page) :
           /\ ~res.raised /\ res.rows = <<>>
           /\ log' = Append(log, LogEntry(minifig_ids[idx], res, Novel(res, csv), 0, FALSE))
    /\ failed' = RecordFailure(failed, minifig_ids[idx])
    /\ idx' = idx + 1
    /\ io_run' = runs
    /\ UNCHANGED <<csv, pc, mode, minifig_ids, failed_ids, all_rows,
                   existing_rows, header, still_failed, appended_count,
                   exit_code, runs, attempts, start_csv, start_failed>>
    /\ IOFrame

\* batch: open(OUTPUT_CSV, "w") after the loop raises, or a write after it does
BatchWriteFails ==
    /\ \/ pc = "batch" /\ idx > Len(minifig_ids) /\ all_rows # <<>>
       \/ pc = "batch_write"
    /\ ExitIO
    /\ UNCHANGED <<csv, failed, mode, minifig_ids, failed_ids, idx, all_rows,
                   existing_rows, header, still_failed, appended_count,
                   runs, attempts, log, start_csv, start_failed>>
    /\ IOFrame

NextIO ==
    \/ Next
    \/ RetryLoadFails \/ RetryAppendFails \/ RetrySaveFails
    \/ BatchRecordFails \/ BatchRecordRetried \/ BatchWriteFails

SpecIO == Init /\ [][NextIO]_vars

-----------------------------------------------------------------------------
(* Sweeps over one queue file, some of them killed, from an absent store or
   from the store an earlier batch run has left *)

\* the stores a completed batch run over the arguments `id id` leaves when both
\* scrapes returned the same rows: all_rows holds them twice and is written whole
RepeatedBatchStores ==
    { WrittenCsv(res.rows \o res.rows) :
        res \in { r \in UNION { scrape_and_parse_value_sales(id, page) :
                                   id \in Ids, page \in SamplePages } :
                      ~r.raised /\ r.rows # <<>> } }

InitSweeps ==
    /\ csv \in {AbsentFile} \cup RepeatedBatchStores
    /\ failed \in { File(ids) : ids \in SeqsUpTo(Ids, MaxArgs) }
    /\ InitProc
    /\ id_in = TEST_ID
    /\ page_in = ErrorPage
    /\ rows_out = NotRun
    /\ FetchIdle
    /\ BlocksIdle

\* the sweep is stopped from outside between two steps; the memory of the
\* process is gone, the files stay
SweepKilled ==
    /\ pc = "retry"
    /\ pc' = "done"
    /\ exit_code' = "killed"
    /\ kill_run' = IF csv # start_csv THEN runs ELSE kill_run
    /\ minifig_ids' = <<>>
    /\ failed_ids' = <<>>
    /\ idx' = 1
    /\ all_rows' = <<>>
    /\ existing_rows' = <<>>
    /\ header' = NoHeader
    /\ still_failed' = <<>>
    /\ appended_count' = 0
    /\ log' = <<>>
    /\ UNCHANGED <<csv, failed, mode, runs, attempts, start_csv, start_failed,
                   id_in, page_in, rows_out, fetchVars, io_run, blockVars,
                   concVars>>

NextSweeps ==
    \/ RetryNothing \/ StartRetry \/ RetryItem \/ RetrySave
    \/ SweepKilled

SpecSweeps == InitSweeps /\ [][NextSweeps]_vars

-----------------------------------------------------------------------------
(* A batch run and retry-failures runs, two processes on the same files *)

\* the locals of the retry process and everything the scrape call works on
ConcFrame ==
    UNCHANGED <<pc, mode, minifig_ids, failed_ids, idx, all_rows, existing_rows,
                header, still_failed, appended_count, exit_code, runs, attempts,
                log, start_csv, start_failed, id_in, page_in, rows_out,
                fetchVars, io_run, blockVars, kill_run>>

InitConc ==
    /\ csv = AbsentFile
    /\ failed \in { File(ids) : ids \in ArgLists }
    /\ InitProc
    /\ id_in = TEST_ID
    /\ page_in = ErrorPage
    /\ rows_out = NotRun
    /\ FetchIdle
    /\ BlocksIdle

\* python information_scraper.py ID ... in a second process
ConcStartBatch ==
    /\ b_pc = "idle"
    /\ \E ids \in ArgLists : b_minifig_ids' = ids
    /\ b_pc' = "batch"
    /\ b_idx' = 1
    /\ b_all_rows' = <<>>
    /\ UNCHANGED <<csv, failed, b_recorded>>
    /\ ConcFrame

\* one iteration of the second process's loop over minifig_ids; b_recorded keeps
\* the id and the number of the sweep when the append falls between a sweep's
\* load of the queue and its save
ConcBatchAttempt(minifig_id, res) ==
    IF ~res.raised /\ res.rows # <<>>
    THEN /\ b_all_rows' = b_all_rows \o res.rows
         /\ UNCHANGED <<failed, b_recorded>>
    ELSE /\ failed' = RecordFailure(failed, minifig_id)
         /\ b_recorded' = IF pc = "retry"
                          THEN Append(b_recorded, [id |-> minifig_id, run |-> runs])
                          ELSE b_recorded
         /\ UNCHANGED b_all_rows

ConcBatchItem ==
    /\ b_pc = "batch"
    /\ b_idx <= Len(b_minifig_ids)
    /\ \E page \in SamplePages :
       \E res \in scrape_and_parse_value_sales(b_minifig_ids[b_idx], page) :
           ConcBatchAttempt(b_minifig_ids[b_idx], res)
    /\ b_idx' = b_idx + 1
    /\ UNCHANGED <<csv, b_pc, b_minifig_ids>>
    /\ ConcFrame

ConcBatchOpenCsv ==
    /\ b_pc = "batch"
    /\ b_idx > Len(b_minifig_ids)
    /\ b_all_rows # <<>>
    /\ csv' = File(<<>>)
    /\ b_pc' = "batch_write"
    /\ UNCHANGED <<failed, b_minifig_ids, b_idx, b_all_rows, b_recorded>>
    /\ ConcFrame

ConcBatchWriteCsv ==
    /\ b_pc = "batch_write"
    /\ csv' = WrittenCsv(b_all_rows)
    /\ b_pc' = "done"
    /\ UNCHANGED <<failed, b_minifig_ids, b_idx, b_all_rows, b_recorded>>
    /\ ConcFrame

ConcBatchEnd ==
    /\ b_pc = "batch"
    /\ b_idx > Len(b_minifig_ids)
    /\ b_all_rows = <<>>
    /\ b_pc' = "done"
    /\ UNCHANGED <<csv, failed, b_minifig_ids, b_idx, b_all_rows, b_recorded>>
    /\ ConcFrame

\* python information_scraper.py --retry-failures, once
ConcStartRetry == runs = 0 /\ StartRetry

NextConc ==
    \/ ConcStartRetry \/ RetryItem \/ RetrySave
    \/ ConcStartBatch \/ ConcBatchItem
    \/ ConcBatchOpenCsv \/ ConcBatchWriteCsv \/ ConcBatchEnd

SpecConc == InitConc /\ [][NextConc]_vars

-----------------------------------------------------------------------------
(* Properties *)

IdsWhere(Test(_)) ==
    LET sel == SelectSeq(log, Test)
    IN  [j \in 1..Len(sel) |-> sel[j].id]

DataLines(file) == { k \in 1..Len(file.lines) : file.lines[k].kind = "data" }

Completed(m) == pc = "done" /\ mode = m /\ exit_code = "0"
SweepDone == Completed("retry") /\ failed_ids # <<>>

\* the attempt failed in the pipeline: it raised or returned no record
PipelineFailed(e) == e.raised \/ e.returned = 0

\* C1: the canonical CSV never holds two data rows with the same
\* (ItemID, Date, Low, Q1, Q3, High, Tooltip) tuple.
C1_NoDuplicateRows ==
    \A j \in DataLines(csv) : \A k \in DataLines(csv) :
        j # k => ~SameLine(csv.lines[j], csv.lines[k])

\* C2 (as claimed): after a retry-failures run the queue holds, in loaded
\* order, exactly the loaded ids whose retry produced no record that was new to
\* the store; the ids with at least one new record are the ones removed.
C2_RemovedIffNovel ==
    SweepDone => failed.lines = IdsWhere(LAMBDA e : e.novel = 0)

\* C2 (amended): after a retry-failures run the ids removed from the queue are
\* exactly those whose retry returned at least one record without an exception,
\* new to the store or not; an id whose retry raised or returned nothing stays,
\* and so does every id when the store existed with zero bytes at the start of
\* the run (the append raises).  The fate of an id depends on its own outcome
\* and on the store at the start of the run only, not on the processing order.
C2_RemovedIffReturned ==
    SweepDone =>
        /\ Len(log) = Len(failed_ids)
        /\ \A j \in 1..Len(log) : log[j].id = failed_ids[j]
        /\ failed.lines =
             IdsWhere(LAMBDA e : \/ PipelineFailed(e)
                                 \/ start_csv.exists /\ start_csv.lines = <<>>)

\* C2 witness: a completed sweep removed an id whose records were all in the
\* store already and wrote nothing for it.
C2_Witness ==
    /\ SweepDone
    /\ failed.lines = <<>>
    /\ \E j \in 1..Len(log) :
          log[j].returned > 0 /\ log[j].novel = 0 /\ log[j].written = 0

\* C3: a retry attempt whose scraped records are all in the store already
\* (on disk at the time of the attempt) writes zero rows.
C3_AppendIdempotent ==
    mode = "retry" =>
        \A j \in 1..Len(log) :
            (log[j].returned > 0 /\ log[j].novel = 0) => log[j].written = 0

\* C4: a completed run leaves in the store every data row the store held when
\* the run started.
C4_AppendOnly ==
    (pc = "done" /\ exit_code = "0") =>
        \A k \in DataLines(start_csv) : InLines(start_csv.lines[k], csv.lines)

\* C5: when the store is absent or has zero bytes at the start of a
\* retry-failures run, an attempt that scrapes at least one record does not
\* raise, the store then starts with the header row, and the id is not retained.
C5_EmptyStoreTolerated ==
    (mode = "retry" /\ start_csv.lines = <<>>) =>
        /\ \A j \in 1..Len(log) :
              log[j].returned > 0 =>
                  /\ ~log[j].append_raised
                  /\ csv.lines # <<>>
                  /\ SameLine(Head(csv.lines), HeaderRow)
        /\ still_failed = IdsWhere(PipelineFailed)

\* C6: in each workflow, an item whose pipeline ended in an exception or in zero
\* records is in the failure queue file when the run completes.
C6_FailureQueued ==
    (pc = "done" /\ exit_code = "0") =>
        \A j \in 1..Len(log) :
            PipelineFailed(log[j]) =>
                \E k \in 1..Len(failed.lines) : failed.lines[k] = log[j].id

\* C7: in batch mode the ids attempted so far are the argument list up to the
\* loop position, in order, whatever their outcomes; once the loop is over every
\* id of the argument list has been attempted exactly once.
C7_BatchAttemptsAll ==
    (mode = "batch" /\ exit_code # "killed") =>
        /\ Len(log) = idx - 1
        /\ idx - 1 <= Len(minifig_ids)
        /\ \A j \in 1..Len(log) : log[j].id = minifig_ids[j]
        /\ pc \in {"batch_write", "done"} => Len(log) = Len(minifig_ids)

\* C7 witness: a batch completed whose first id raised and whose second id was
\* attempted all the same.
C7_Witness ==
    /\ Completed("batch")
    /\ Len(log) = 2
    /\ log[1].raised
    /\ log[2].returned > 0

\* C8: during the sweep the queue file is as it was at the start of the run and
\* holds the loaded ids; a run stopped before the save leaves it so; the save
\* writes the ids whose retry failed, in loaded order.
C8_QueueSavedAfterSweep ==
    /\ pc = "retry" => failed = start_failed /\ failed_ids = failed.lines
    /\ (mode = "retry" /\ exit_code = "killed") => failed = start_failed
    /\ SweepDone =>
          /\ failed.lines = still_failed
          /\ still_failed =
               IdsWhere(LAMBDA e : PipelineFailed(e) \/ e.append_raised)
          /\ \A j \in 1..Len(log) : log[j].id = start_failed.lines[j]

\* C8 witness: a sweep was stopped after it had appended to the store, and the
\* queue file still holds what it held at the start.
C8_Witness ==
    /\ mode = "retry"
    /\ exit_code = "killed"
    /\ csv # start_csv
    /\ start_failed.lines # <<>>
    /\ failed = start_failed

\* C9: for every positive price parsed by the single-price grammar,
\* Low < Q1 < price < Q3 < High, the four fields being 0.9, 0.8, 1.1 and 1.2
\* times the price rounded to the cent.
C9_DerivedFieldsOrdered ==
    (/\ rows_out.ran /\ ~rows_out.raised
     /\ page_in.render = "ok" /\ page_in.marker /\ Len(page_in.blocks) = 1) =>
        LET matches == Matches(page_in.blocks[1], "single")
        IN  \A j \in 1..Len(rows_out.rows) :
                LET price == matches[j].nums[1]
                    low == rows_out.rows[j][3][2]
                    q1 == rows_out.rows[j][4][2]
                    q3 == rows_out.rows[j][5][2]
                    high == rows_out.rows[j][6][2]
                IN  price > 0 =>
                        /\ low \in RoundCents(9 * price, 10)
                        /\ q1 \in RoundCents(8 * price, 10)
                        /\ q3 \in RoundCents(11 * price, 10)
                        /\ high \in RoundCents(12 * price, 10)
                        /\ low < q1 /\ q1 < price /\ price < q3 /\ q3 < high

\* C10: with two or more blocks the rows are those of the quartile literals of
\* block index 1 and of nothing else; with one block those of the single-price
\* literals of block 0; with no block there are none.  A selected grammar that
\* matches nothing yields zero records.
C10_GrammarSelection ==
    (rows_out.ran /\ page_in.render = "ok" /\ page_in.marker) =>
        LET blocks == page_in.blocks
            rows == rows_out.rows
        IN  /\ Len(blocks) >= 2 =>
                \/ rows_out.raised
                \/ /\ Len(rows) = Len(Matches(blocks[2], "quartile"))
                   /\ \A j \in 1..Len(rows) : rows[j][7].kind = "verbatim"
            /\ Len(blocks) = 1 =>
                \/ rows_out.raised
                \/ /\ Len(rows) = Len(Matches(blocks[1], "single"))
                   /\ \A j \in 1..Len(rows) :
                         rows[j][7].kind = "approximated quartiles"
            /\ Len(blocks) = 0 => ~rows_out.raised /\ rows = <<>>

\* C10 witness: two blocks, block 0 holds a single-price row, block 1 holds no
\* quartile row, and the call returned no record.
C10_Witness ==
    /\ rows_out.ran /\ ~rows_out.raised
    /\ page_in.render = "ok"
    /\ Len(page_in.blocks) = 2
    /\ Len(Matches(page_in.blocks[1], "single")) > 0
    /\ Len(Matches(page_in.blocks[2], "quartile")) = 0
    /\ rows_out.rows = <<>>

\* C11: a fetch reads the document at most 30 times and sleeps once after each
\* read that lacks the marker; it stops at the first read that contains the
\* marker and keeps that markup; when 30 reads lacked it the fetch ends as a
\* timeout, after writing the last markup read to the diagnostic file.
C11_PollingBudget ==
    /\ polls <= PollBudget
    /\ polls = misses + (IF found THEN 1 ELSE 0)
    /\ sleeps = IF fpc = "sleep" THEN misses - 1 ELSE misses
    /\ found => fpc \in {"finally", "done"} /\ html.marker /\ fetch_out = "markup"
    /\ fetch_out = "markup" => found
    /\ fpc = "timeout" => misses = PollBudget
    /\ fetch_out = "timeout" =>
          /\ misses = PollBudget
          /\ ~html.marker
          /\ debug_file = [exists |-> TRUE, content |-> html]
    /\ debug_file.exists => fetch_out = "timeout"

\* C11 witness: a fetch ended as a timeout after 30 reads.
C11_Witness ==
    fpc = "done" /\ fetch_out = "timeout" /\ polls = PollBudget /\ sleeps = PollBudget

\* C12: a call launches at most one browser session; once the call has returned
\* or raised no session is open, and on every path past the launch (marker
\* found, timeout, exception from new_page, goto or evaluate) exactly one
\* session was opened and it is closed.
C12_SessionClosed ==
    /\ sessions <= 1
    /\ browser = "open" => sessions = 1 /\ fpc # "done"
    /\ fpc = "done" =>
          \/ browser = "closed" /\ sessions = 1
          \/ browser = "none" /\ sessions = 0 /\ fetch_out = "raised" /\ polls = 0

\* C12 witness: document evaluation raised in the middle of the polling and the
\* call ended with its session closed.
C12_Witness ==
    /\ fpc = "done"
    /\ fetch_out = "raised"
    /\ polls > 0
    /\ browser = "closed"

\* C13: no item outcome (renderer exception, timeout, no block, zero records)
\* ends a workflow as failed: a process that was not killed ends with exit
\* code 0 after it has attempted every id of its list.
C13_ItemOutcomesExitZero ==
    /\ exit_code \in {"none", "0", "killed"}
    /\ exit_code = "none" <=> pc # "done"
    /\ (pc = "done" /\ exit_code = "0") =>
          /\ mode = "batch" => Len(log) = Len(minifig_ids)
          /\ mode = "single" => Len(log) = 1 /\ log[1].id = TEST_ID
          /\ mode = "retry" => Len(log) = Len(failed_ids)

\* C13 witness: a batch ended with exit code 0 although one id raised and
\* another returned no record.
C13_Witness ==
    /\ Completed("batch")
    /\ \E j \in 1..Len(log) : log[j].raised
    /\ \E j \in 1..Len(log) : ~log[j].raised /\ log[j].returned = 0

\* C14: once an open, read or write of the store or of the queue file has
\* failed in a batch or retry run, that run is over, with a non-zero exit
\* code: it takes no further id and does not end with exit code 0.
C14_IOFailureAborts ==
    (io_run > 0 /\ io_run = runs /\ mode \in {"batch", "retry"}) =>
        pc = "done" /\ exit_code = "1"

\* C15: in batch mode the queue file is what it was at the start of the run
\* followed by the id of each failed attempt (exception or zero records), once
\* each and in order of the attempts; an attempt that returned records adds
\* nothing.
C15_QueuedOncePerFailure ==
    (mode = "batch" /\ exit_code # "killed") =>
        /\ failed.lines = start_failed.lines \o IdsWhere(PipelineFailed)
        /\ failed.exists <=> (start_failed.exists \/ IdsWhere(PipelineFailed) # <<>>)

\* C15 witness: a batch of two attempts on a queue that was not empty: the first
\* returned no record, the second returned records, and one line was added.
C15_Witness ==
    /\ Completed("batch")
    /\ start_failed.lines # <<>>
    /\ Len(log) = 2
    /\ ~log[1].raised /\ log[1].returned = 0
    /\ log[2].returned > 0
    /\ Len(failed.lines) = Len(start_failed.lines) + 1

\* C16: the quartile parser, applied to block index 1, returns one record per
\* literal that matches the quartile pattern, in document order: the date is
\* (year, month index + 1, 01) whatever the stated day, and the four values and
\* the tooltip are those of the literal.
C16_QuartileRecords ==
    (/\ rows_out.ran
     /\ page_in.render = "ok" /\ page_in.marker /\ Len(page_in.blocks) >= 2) =>
        LET matches == Matches(page_in.blocks[2], "quartile")
            rows == rows_out.rows
        IN  /\ ~rows_out.raised
            /\ Len(rows) = Len(matches)
            /\ \A j \in 1..Len(rows) :
                  rows[j] = << id_in,
                               <<matches[j].y, matches[j].m + 1, 1>>,
                               Float(matches[j].nums[1]), Float(matches[j].nums[2]),
                               Float(matches[j].nums[3]), Float(matches[j].nums[4]),
                               Verbatim(matches[j].tip) >>

\* C17: the single-price parser, applied to the only block, returns one record
\* per literal that matches the single-price pattern: the date is (year, month
\* index + 1, day), the four values are 0.9, 0.8, 1.1 and 1.2 times the price
\* rounded to the cent, and the tooltip is the price tagged as approximated;
\* the row (2008, 3, 28, 18.00) gives (2008-04-28, 16.20, 14.40, 19.80, 21.60).
C17_SinglePriceRecords ==
    (/\ rows_out.ran
     /\ page_in.render = "ok" /\ page_in.marker /\ Len(page_in.blocks) = 1) =>
        LET matches == Matches(page_in.blocks[1], "single")
            rows == rows_out.rows
        IN  /\ ~rows_out.raised
            /\ Len(rows) = Len(matches)
            /\ \A j \in 1..Len(rows) :
                  LET price == matches[j].nums[1]
                  IN  /\ rows[j][1] = id_in
                      /\ rows[j][2] = <<matches[j].y, matches[j].m + 1, matches[j].d>>
                      /\ rows[j][3][2] \in RoundCents(9 * price, 10)
                      /\ rows[j][4][2] \in RoundCents(8 * price, 10)
                      /\ rows[j][5][2] \in RoundCents(11 * price, 10)
                      /\ rows[j][6][2] \in RoundCents(12 * price, 10)
                      /\ rows[j][7] = Approximated(price)
                      /\ matches[j] = SingleLit(2008, 3, 28, 1800) =>
                            rows[j] = << id_in, <<2008, 4, 28>>, Float(1620),
                                         Float(1440), Float(1980), Float(2160),
                                         Approximated(1800) >>

\* C18: whatever the text of the blocks, the row parsers return a list: a call
\* whose renderer did not fail never raises, and a literal whose numeric field
\* is not a number contributes no exception.
C18_ParsersNeverRaise ==
    (rows_out.ran /\ page_in.render = "ok") => ~rows_out.raised

\* C19: in batch mode the step that attempts an id is the step that appends it
\* to the queue file when the attempt failed; no other step of a running batch
\* (the end of the loop, the CSV write, a stop from outside) changes the queue
\* file, so a batch stopped after k attempts leaves every failed id among them
\* in the file.
C19_RecordedBeforeNextFetch ==
    [][ (mode = "batch" /\ pc \in {"batch", "batch_write"}) =>
            IF Len(log') = Len(log) + 1
            THEN LET e == log'[Len(log')]
                 IN  /\ e.id = minifig_ids[idx]
                     /\ PipelineFailed(e) => failed'.lines = Append(failed.lines, e.id)
                     /\ ~PipelineFailed(e) => failed' = failed
            ELSE failed' = failed ]_vars

\* C19 witness: a batch was stopped from outside and the queue file holds a
\* line it did not hold when the batch started.
C19_Witness ==
    /\ mode = "batch"
    /\ exit_code = "killed"
    /\ Len(failed.lines) > Len(start_failed.lines)

\* C20: when the fetch of the next id can start, every earlier attempt of the
\* run is complete: the records it returned are in the store, or its id is in
\* the queue file; this in batch and in retry alike, and no more than one
\* browser session exists at a time.
C20_ItemCompleteBeforeNext ==
    /\ sessions <= 1
    /\ (pc = "batch" /\ idx <= Len(minifig_ids)) =>
          /\ \A j \in 1..Len(all_rows) : InLines(StrRow(all_rows[j]), csv.lines)
          /\ \A j \in 1..Len(log) :
                PipelineFailed(log[j]) =>
                    \E k \in 1..Len(failed.lines) : failed.lines[k] = log[j].id
    /\ (pc = "retry" /\ idx <= Len(failed_ids)) =>
          \A j \in 1..Len(log) :
              IF PipelineFailed(log[j]) \/ log[j].append_raised
              THEN \E k \in 1..Len(failed.lines) : failed.lines[k] = log[j].id
              ELSE log[j].novel > 0 => log[j].written >= log[j].novel

RECURSIVE SumWritten(_)
SumWritten(entries) ==
    IF entries = <<>> THEN 0
    ELSE Head(entries).written + SumWritten(Tail(entries))

\* C21: when a sweep has ended, the figures of its summary line agree with the
\* files: the failures reported are the lines of the queue file, and the
\* successes reported are both the number of attempted ids that left the queue
\* and the number of rows the run wrote to the store.
C21_SummaryConsistent ==
    SweepDone =>
        /\ Len(still_failed) = Len(failed.lines)
        /\ appended_count = Len(failed_ids) - Len(failed.lines)
        /\ appended_count = SumWritten(log)

\* C22: a store file that is not empty begins with the header row
\* SW_ID,Date,Low,Q1,Q3,High,Tooltip and holds no second header.
C22_HeaderOnce ==
    (csv.exists /\ csv.lines # <<>>) =>
        /\ SameLine(csv.lines[1], HeaderRow)
        /\ \A k \in 2..Len(csv.lines) : csv.lines[k].kind = "data"

\* C22 witness: a sweep created the store and appended to it twice.
C22_Witness ==
    /\ Completed("retry")
    /\ ~start_csv.exists
    /\ appended_count = 2
    /\ Len(csv.lines) >= 3

\* C23: when a run has completed, no id is on two lines of the queue file.
C23_QueueSetLike ==
    (pc = "done" /\ exit_code = "0") =>
        \A j, k \in 1..Len(failed.lines) :
            j # k => failed.lines[j] # failed.lines[k]

\* the complete calls of a markup, by the index of their closer: an opener, text
\* that holds no opener and no closer, a closer
CallOpener(text, c) ==
    { o \in 1..(c - 1) :
        /\ text[o] = "open"
        /\ \A k \in (o + 1)..(c - 1) : text[k] \notin {"open", "close"} }
CallClosers(text) ==
    { c \in 1..Len(text) : text[c] = "close" /\ CallOpener(text, c) # {} }
NthCall(text, n) ==
    CHOOSE c \in CallClosers(text) :
        Cardinality({ d \in CallClosers(text) : d <= c }) = n
CallText(text, c) ==
    LET o == CHOOSE x \in CallOpener(text, c) : TRUE
    IN  SubSeq(text, o + 1, c - 1)
IsSuffix(s, t) ==
    Len(s) <= Len(t) /\ SubSeq(t, Len(t) - Len(s) + 1, Len(t)) = s

\* C24: the extraction returns one block per complete data.addRows([ ... ]);
\* call of the markup, in document order: block j ends with the text of the
\* j-th call, and is that text when the markup holds no opener outside a
\* complete call.
C24_BlocksInOrder ==
    blocks_out.ran =>
        LET n == Cardinality(CallClosers(html_in))
            blocks == blocks_out.blocks
        IN  /\ Len(blocks) = n
            /\ \A j \in 1..n :
                  LET call == CallText(html_in, NthCall(html_in, j))
                  IN  /\ IsSuffix(call, blocks[j])
                      /\ (\A k \in 1..Len(html_in) :
                              html_in[k] = "open" =>
                                  \E c \in CallClosers(html_in) :
                                      k \in CallOpener(html_in, c))
                         => blocks[j] = call

\* C24 witness: three complete calls, the second with text, and three blocks.
C24_Witness ==
    /\ blocks_out.ran
    /\ html_in = <<"open", "close", "open", "r1", "close", "open", "close">>
    /\ blocks_out.blocks = << <<>>, <<"r1">>, <<>> >>

\* C25: a batch or retry run over a finite list ends: no call polls more than
\* 30 times, the ids attempted so far are the ids of the list up to the loop
\* position, once each, the sweep leaves the list it iterates as loaded, and
\* every run that has started reaches its end.
C25_RunsTerminate ==
    /\ [](polls <= PollBudget)
    /\ [](pc \in {"batch", "batch_write", "retry"} =>
            /\ Len(log) = idx - 1
            /\ idx - 1 <= Len(IF mode = "batch" THEN minifig_ids ELSE failed_ids)
            /\ \A j \in 1..Len(log) :
                  log[j].id = (IF mode = "batch" THEN minifig_ids ELSE failed_ids)[j])
    /\ [](pc = "retry" => failed_ids = start_failed.lines)
    /\ (pc \in {"batch", "batch_write", "retry"}) ~> (pc = "done")

\* C25 witness: a sweep over two ids has ended, the call for its second id
\* having returned no record.
C25_Witness ==
    /\ pc = "done"
    /\ mode = "retry"
    /\ Len(failed_ids) = 2
    /\ Len(log) = 2
    /\ ~log[2].raised /\ log[2].returned = 0

\* C26: the markup a fetch returns holds every block the page has rendered by
\* the time the browser is closed: the snapshot is not one taken before a
\* further block of the page appeared.
C26_AllBlocksFetched ==
    (fpc = "done" /\ fetch_out = "markup") => html.blocks = doc.blocks

Distinct(seq) == \A j, k \in 1..Len(seq) : j # k => seq[j] # seq[k]

\* the sweep after a sweep that was killed once it had appended, over a queue
\* file that holds each id once
AfterKilledSweep ==
    /\ SweepDone
    /\ kill_run > 0 /\ runs = kill_run + 1
    /\ Distinct(start_failed.lines)

\* C27: the sweep that follows a sweep killed after an append attempts every id
\* of the queue again, the appended one included; it writes the rows that are
\* not in the store and no other, and the store ends without a tuple on two
\* lines.
C27_RecoverDedup ==
    AfterKilledSweep =>
        /\ Len(log) = Len(start_failed.lines)
        /\ \A j \in 1..Len(log) :
              /\ log[j].id = start_failed.lines[j]
              /\ log[j].written =
                   (IF PipelineFailed(log[j]) \/ log[j].append_raised
                    THEN 0 ELSE log[j].novel)
        /\ SubSeq(csv.lines, 1, Len(start_csv.lines)) = start_csv.lines
        /\ \A j, k \in 1..Len(csv.lines) :
              j # k => ~SameLine(csv.lines[j], csv.lines[k])

\* C27 witness: in such a sweep an id returned records that were all in the
\* store already, and another id's records were written.
C27_Witness ==
    /\ AfterKilledSweep
    /\ \E j \in 1..Len(log) : log[j].returned > 0 /\ log[j].novel = 0
    /\ \E j \in 1..Len(log) : log[j].written > 0

\* C28: during and after a sweep the store file begins with the content it had
\* when the sweep started and never ceases to exist; a sweep in which no row
\* was written leaves the file as it was, absent if it was absent.
C28_SweepExtendsStore ==
    mode = "retry" =>
        /\ start_csv.exists => csv.exists
        /\ Len(start_csv.lines) <= Len(csv.lines)
        /\ SubSeq(csv.lines, 1, Len(start_csv.lines)) = start_csv.lines
        /\ (exit_code # "killed" /\ \A j \in 1..Len(log) : log[j].written = 0) =>
               csv = start_csv

\* C28 witness: a sweep over a store that held rows has ended and has added a
\* row behind them.
C28_Witness ==
    /\ SweepDone
    /\ Len(start_csv.lines) >= 2
    /\ Len(csv.lines) > Len(start_csv.lines)


\* C29: when a batch run completes, every id of its argument list was appended
\* to the failure queue during the run or has at least one record in the store.
C29_BatchAccountsForIds ==
    Completed("batch") =>
        /\ Len(start_failed.lines) <= Len(failed.lines)
        /\ \A k \in 1..Len(minifig_ids) :
              \/ \E j \in (Len(start_failed.lines) + 1)..Len(failed.lines) :
                     failed.lines[j] = minifig_ids[k]
              \/ \E j \in DataLines(csv) : csv.lines[j].fields[1] = minifig_ids[k]

\* C29 witness: a batch over two different ids has completed; one id is in the
\* queue and not in the store, the other in the store and not in the queue.
C29_Witness ==
    /\ Completed("batch")
    /\ Len(minifig_ids) = 2
    /\ \E j \in (Len(start_failed.lines) + 1)..Len(failed.lines) :
           /\ failed.lines[j] = minifig_ids[1]
           /\ \A d \in DataLines(csv) : csv.lines[d].fields[1] # minifig_ids[1]
    /\ \E d \in DataLines(csv) : csv.lines[d].fields[1] = minifig_ids[2]
    /\ \A j \in (Len(start_failed.lines) + 1)..Len(failed.lines) :
           failed.lines[j] # minifig_ids[2]


\* the number of entries of a sequence that satisfy a test
CountWhere(seq, Test(_)) == Len(SelectSeq(seq, Test))

\* C30: with a batch run and a retry-failures run on the same queue file, a
\* failure entry the batch appended while the sweep was in progress is still in
\* the queue after the sweep has saved its retained list: for every id the queue
\* holds at least the entries the sweep retained plus the entries the batch
\* appended during the sweep.
C30_ConcurrentAppendKept ==
    SweepDone =>
        \A id \in Ids :
            CountWhere(failed.lines, LAMBDA x : x = id) >=
                CountWhere(still_failed, LAMBDA x : x = id)
              + CountWhere(b_recorded, LAMBDA r : r.id = id /\ r.run = runs)

====
